---- MODULE Spec2Model ----
(***************************************************************************)
(* Beamer presenter: the presenter window's session state, navigation,     *)
(* page cache, laser pointer and the presenter/audience handshake.         *)
(*                                                                         *)
(* One step of the model is one turn of the presenter's event loop: an     *)
(* event handler (or the continuation of an async function) run up to the  *)
(* next point at which it is suspended in the PDF engine.  Awaits that are *)
(* resolved without the engine (cache hits, early returns) are microtasks  *)
(* and belong to the same step.                                            *)
(***************************************************************************)
EXTENDS Integers, Sequences, FiniteSets, TLC

\* ------------------------------------------------------------------ bounds
MaxPages == 4       \* pages of the largest document
MaxDocs  == 2       \* documents the user can pick
MaxTasks == 2       \* async invocations suspended at the same time
MaxInbox == 2       \* messages queued for the presenter
MaxTime  == 170     \* last millisecond the clock reaches
MaxDim   == 4       \* largest raster width and height, in pixels

\* ------------------------------------------------------------ constants
NULL == -1                  \* JavaScript null / undefined
CacheLimit == 5             \* pageCache.size > 5
POINTER_THROTTLE_MS == 33
Handle == 1                  \* the window handle window.open returns
Detached == 0               \* content of an ArrayBuffer that was transferred away
DefaultSplit == 50          \* CONFIG.defaults.split, in percent
DefaultScale == 20          \* CONFIG.defaults.scale, in tenths

Docs == 1..MaxDocs
\* pdfDoc.numPages of each document the user can pick
NumPages(d) == IF d = 1 THEN MaxPages ELSE 2

\* elements.locationSelect / splitInput / scaleInput / nextPreviewCheckbox as
\* read when a load applies the settings (split in percent, scale in tenths)
SettingsInputs ==
    { [location |-> "right", split |-> 50, scale |-> 20, showNextPreview |-> TRUE],
      [location |-> "top",   split |-> 30, scale |-> 20, showNextPreview |-> FALSE] }

\* raw mouse positions relative to the preview canvas, in percent of its size
MousePositions == { <<50, 50>>, <<120, 50>> }
MouseButtons == {0, 2}
TickSteps == {11, 33}

VARIABLES
    AppState,               \* config.js AppState (pageCache included)
    screen,                 \* which screen is shown: "start" | "presenter"
    shownPage,              \* page drawn on the current-slide canvas, 0 if blank
    regions,                \* the last getRegions call: its arguments and result
    pushed,                 \* document bytes the audience document has been sent
    intervals,              \* setInterval timers scheduled: poll, clock, timer
    tasks,                  \* suspended async invocations, oldest first
    audience,               \* the audience window: [exists, closed, starting]
    inbox,                  \* messages posted to the presenter, not yet handled
    isPointerActive,        \* closure variable of setupEventListeners
    lastPointerSendTime,    \* closure variable of setupEventListeners
    now,                    \* Date.now()
    last,                   \* the handler that ran last: [op, arg, out]
    lastPointer,            \* active flag of the last POINTER send: "none"|"on"|"off"
    lastNavigate,           \* page of the last NAVIGATE send for this document, 0 if none
    insertLog,              \* cache keys now present, in the order they entered
    helloSinceOpen,         \* a HELLO of the window opened last has been handled
    moveSendTimes,          \* times of the last throttled POINTER sends
    ranFor,                 \* time the timer has run since it last left "stopped"
    pointerSent           \* the last POINTER message sent: [at, active]

vars == << AppState, screen, shownPage, tasks, audience, inbox, isPointerActive,
           lastPointerSendTime, now, last, lastPointer, lastNavigate, insertLog,
           helloSinceOpen, moveSendTimes, regions, pushed, intervals, ranFor,
           pointerSent >>

\* ------------------------------------------------------------------ Map
\* AppState.pageCache is a JavaScript Map: a sequence of [key, doc] entries in
\* insertion order; doc is the document the cached canvas was rendered from.
MapHas(m, k) == \E i \in DOMAIN m : m[i].key = k

MapSet(m, k, v) ==
    IF MapHas(m, k)
    THEN [i \in DOMAIN m |-> IF m[i].key = k THEN [key |-> k, doc |-> v] ELSE m[i]]
    ELSE Append(m, [key |-> k, doc |-> v])

MapKeys(m) == [i \in DOMAIN m |-> m[i].key]

MapLastKey(m) == m[Len(m)].key

\* keys().next().value
MapFirstKey(m) == m[1].key

MapDelete(m, k) == SelectSeq(m, LAMBDA e : e.key # k)

\* ------------------------------------------------------------ page cache
\* renderFullPage, after the engine has rendered: "limit cache size", then set
Evicted(m) == IF Len(m) > CacheLimit THEN << MapFirstKey(m) >> ELSE << >>

CacheInsert(m, k, v) ==
    LET c1 == IF Len(m) > CacheLimit THEN MapDelete(m, MapFirstKey(m)) ELSE m
    IN  MapSet(c1, k, v)

\* the chronology of the keys present, kept beside the Map: an evicted key
\* leaves it, a key that was not present enters it at the end
LogInsert(log, ev, k) ==
    LET l1 == SelectSeq(log, LAMBDA x : \A i \in DOMAIN ev : ev[i] # x)
    IN  IF \E i \in DOMAIN l1 : l1[i] = k THEN l1 ELSE Append(l1, k)

\* ------------------------------------------------------------- sending
WindowLiveIgnoresClosed(st, aud) == st.audienceWindow # NULL

\* sync.js: the window handle is usable
WindowLive(st, aud) == st.audienceWindow # NULL /\ ~aud.closed

\* One send operation: posted tells whether postMessage was reached.
SendToAudience(st, aud, type, payload) ==
    << [type |-> type, payload |-> payload, posted |-> WindowLive(st, aud)] >>

SendStateToAudience(st, aud) ==
    SendToAudience(st, aud, "STATE",
        [page |-> st.currentPage, totalPages |-> st.totalPages,
         location |-> st.location, split |-> st.split, mode |-> st.displayMode])

SendNavigateToAudience(st, aud, page) ==
    SendToAudience(st, aud, "NAVIGATE", [page |-> page])

\* display modes of the MODE message
Modes == {"normal", "black", "white"}

SendModeToAudience(st, aud, mode) ==
    SendToAudience(st, aud, "MODE", [mode |-> mode])

SendPdfDataToAudience(st, aud) ==
    IF st.pdfData = NULL THEN << >>
    ELSE SendToAudience(st, aud, "PDF_DATA",
            [data |-> st.pdfData, location |-> st.location, split |-> st.split])

SendPointerToAudience(st, aud, x, y, active) ==
    SendToAudience(st, aud, "POINTER", [x |-> x, y |-> y, active |-> active])

\* ------------------------------------------------------------ rendering
NotesScale(scale) == (scale * 15) \div 10

\* renderAudienceSlide / renderNotesArea go on past their first line
InRange(st, pageNum) ==
    st.pdfDoc # NULL /\ pageNum >= 1 /\ pageNum <= st.totalPages

\* renderCurrentPage renders in three stages: 1 the current slide, 2 the
\* notes, 3 the next slide's preview
StageRuns(st, page, stage) ==
    CASE stage = 1 -> InRange(st, page)
      [] stage = 2 -> InRange(st, page)
      [] stage = 3 -> st.showNextPreview /\ page < st.totalPages /\ InRange(st, page + 1)

\* cacheKey of the stage's renderFullPage call
StageKey(st, page, stage) ==
    CASE stage = 1 -> << page, st.scale >>
      [] stage = 2 -> << page, NotesScale(st.scale) >>
      [] stage = 3 -> << page + 1, st.scale >>

\* the stage calls renderFullPage and misses the cache: the engine is asked
StageSuspends(st, page, stage) ==
    StageRuns(st, page, stage) /\ ~MapHas(st.pageCache, StageKey(st, page, stage))

\* first stage from `from` on that is suspended in the engine; 4 when
\* renderCurrentPage runs to its end
NextSuspension(st, page, from) ==
    IF \E s \in from..3 : StageSuspends(st, page, s)
    THEN CHOOSE s \in from..3 :
            StageSuspends(st, page, s) /\ \A r \in from..(s - 1) : ~StageSuspends(st, page, r)
    ELSE 4

\* the page on the current-slide canvas after renderCurrentPage(page) has run
\* from stage `from` to stage `to`: stage 1 draws it
Shown(st, page, from, to, shown) ==
    IF from <= 1 /\ to > 1 /\ StageRuns(st, page, 1) THEN page ELSE shown

\* the document, page and layout fields of the session
Session(st) ==
    [pdfDoc |-> st.pdfDoc, pdfData |-> st.pdfData, pdfUrl |-> st.pdfUrl,
     totalPages |-> st.totalPages, currentPage |-> st.currentPage,
     location |-> st.location, split |-> st.split, scale |-> st.scale,
     showNextPreview |-> st.showNextPreview]

\* the session as a load finds it, recorded when nothing else is suspended
\* (other invocations write to the session on their own)
Prior(st, ts) == IF ts = << >> THEN Session(st) ELSE << >>

\* a suspended invocation; prior is kept until the document is decoded
Task(kind, st, page, stage, prior) ==
    [kind |-> kind, page |-> page, stage |-> stage,
     key |-> StageKey(st, page, stage), doc |-> st.pdfDoc, prior |-> prior]

RemoveAt(seq, i) == [j \in 1..(Len(seq) - 1) |-> IF j < i THEN seq[j] ELSE seq[j + 1]]

\* CONFIG.sessionId is a random UUID made when a window loads config.js: one
\* for the presenter, another for the audience; "" is a message without one
PresenterSession == "presenter"

AudienceSession == "audience"

SessionIds == {PresenterSession, AudienceSession, ""}

\* ------------------------------------------------------------------ Init
Init ==
    /\ AppState = [pdfDoc |-> NULL, pdfData |-> NULL, pdfUrl |-> NULL,
                   totalPages |-> 0, currentPage |-> 1,
                   location |-> "right", split |-> DefaultSplit, scale |-> DefaultScale,
                   showNextPreview |-> TRUE, displayMode |-> "normal",
                   audienceWindow |-> NULL, isAudienceConnected |-> FALSE,
                   timerState |-> "stopped", timerStartTime |-> NULL, timerElapsed |-> 0,
                   pageCache |-> << >>]
    /\ screen = "start"
    /\ shownPage = 0
    /\ regions = << >>
    /\ pushed = NULL
    /\ intervals = [poll |-> 1, clock |-> 0, timer |-> 0]
    /\ tasks = << >>
    /\ audience = [closed |-> TRUE, starting |-> FALSE, sessionId |-> AudienceSession,
                   received |-> << >>, calls |-> << >>]
    /\ inbox = << >>
    /\ isPointerActive = FALSE
    /\ lastPointerSendTime = 0
    /\ now = POINTER_THROTTLE_MS
    /\ last = [op |-> "init", arg |-> 0, out |-> << >>, evicted |-> << >>]
    /\ lastPointer = "none"
    /\ lastNavigate = 0
    /\ insertLog = << >>
    /\ helloSinceOpen = FALSE
    /\ moveSendTimes = << >>
    /\ ranFor = 0
    /\ pointerSent = [at |-> NULL, active |-> FALSE]

\* history of the sends of one step
PointerOf(out, prev) ==
    IF \E i \in DOMAIN out : out[i].type = "POINTER"
    THEN LET i == CHOOSE j \in DOMAIN out :
                    out[j].type = "POINTER" /\ \A k \in DOMAIN out : out[k].type = "POINTER" => k <= j
         IN  IF out[i].payload.active THEN "on" ELSE "off"
    ELSE prev

\* the last POINTER message handed to sendPointerToAudience, and when
SentOf(out, prev) ==
    IF \E i \in DOMAIN out : out[i].type = "POINTER"
    THEN LET i == CHOOSE j \in DOMAIN out :
                    /\ out[j].type = "POINTER"
                    /\ \A k \in DOMAIN out : out[k].type = "POINTER" => k <= j
         IN  [at |-> now, active |-> out[i].payload.active]
    ELSE prev

NavigateOf(out, prev) ==
    IF \E i \in DOMAIN out : out[i].type = "NAVIGATE"
    THEN LET i == CHOOSE j \in DOMAIN out :
                    out[j].type = "NAVIGATE" /\ \A k \in DOMAIN out : out[k].type = "NAVIGATE" => k <= j
         IN  out[i].payload.page
    ELSE prev

Ran(op, arg, out, ev) ==
    /\ last' = [op |-> op, arg |-> arg, out |-> out, evicted |-> ev]
    /\ lastPointer' = PointerOf(out, lastPointer)
    /\ lastNavigate' = NavigateOf(out, IF op \in {"loaded", "home"} THEN 0 ELSE lastNavigate)
    /\ pointerSent' = SentOf(out, pointerSent)

\* ------------------------------------------------------------ navigation
OutOfRangeNoLowerBound(page, st) == page > st.totalPages

OutOfRangeNoUpperBound(page, st) == page < 1

\* navigateTo's first line
OutOfRange(page, st) == page < 1 \/ page > st.totalPages

NavigateToNotifiesFirst(op, page) ==
    IF OutOfRange(page, AppState)
    THEN /\ Ran(op, page, << >>, << >>)
         /\ UNCHANGED << AppState, screen, shownPage, tasks, audience, inbox, isPointerActive,
                         lastPointerSendTime, now, ranFor, insertLog, helloSinceOpen,
                         moveSendTimes, regions, pushed, intervals >>
    ELSE LET st1 == [AppState EXCEPT !.currentPage = page]
             ptr == SendPointerToAudience(st1, audience, NULL, NULL, FALSE)
             s   == NextSuspension(st1, page, 1)
         IN  /\ AppState' = st1
             /\ IF s <= 3
                THEN /\ Len(tasks) < MaxTasks
                     /\ tasks' = Append(tasks, Task("load", st1, page, s, << >>))
                ELSE tasks' = tasks
             /\ Ran(op, page, ptr \o SendNavigateToAudience(st1, audience, page), << >>)
             /\ shownPage' = Shown(st1, page, 1, s, shownPage)
             /\ UNCHANGED << screen, audience, inbox, isPointerActive,
                             lastPointerSendTime, now, ranFor, insertLog, helloSinceOpen,
                             moveSendTimes, regions, pushed, intervals >>

\* navigateTo(page), up to its first suspension in the engine
NavigateTo(op, page) ==
    IF OutOfRange(page, AppState)
    THEN /\ Ran(op, page, << >>, << >>)
         /\ UNCHANGED << AppState, screen, shownPage, tasks, audience, inbox, isPointerActive,
                         lastPointerSendTime, now, ranFor, insertLog, helloSinceOpen, moveSendTimes,
                    regions, pushed, intervals >>
    ELSE LET st1 == [AppState EXCEPT !.currentPage = page]
             ptr == SendPointerToAudience(st1, audience, NULL, NULL, FALSE)
             s   == NextSuspension(st1, page, 1)
         IN  /\ AppState' = st1
             /\ IF s <= 3
                THEN /\ Len(tasks) < MaxTasks
                     /\ tasks' = Append(tasks, Task("nav", st1, page, s, << >>))
                     /\ Ran(op, page, ptr, << >>)
                ELSE /\ tasks' = tasks
                     /\ Ran(op, page, ptr \o SendNavigateToAudience(st1, audience, page), << >>)
             /\ shownPage' = Shown(st1, page, 1, s, shownPage)
             /\ UNCHANGED << screen, audience, inbox, isPointerActive,
                             lastPointerSendTime, now, ranFor, insertLog, helloSinceOpen, moveSendTimes,
                    regions, pushed, intervals >>

\* the jump input, Home and End keys
GoTo == \E page \in 0..(MaxPages + 1) : NavigateTo("navigateTo", page)

NextPage == NavigateTo("navigateTo", AppState.currentPage + 1)

PrevPage == NavigateTo("navigateTo", AppState.currentPage - 1)

ResumeRethrows(op, i, st1, page, from, ev, shown) ==
    LET t == tasks[i]
        s == IF from <= 3 THEN NextSuspension(st1, page, from) ELSE 4
    IN  /\ AppState' = st1
        /\ shownPage' = Shown(st1, page, from, s, shown)
        /\ IF s <= 3
           THEN /\ tasks' = [tasks EXCEPT ![i] = Task(t.kind, st1, page, s, << >>)]
                /\ Ran(op, page, << >>, ev)
           ELSE /\ tasks' = RemoveAt(tasks, i)
                /\ Ran(op, page,
                       IF t.kind = "nav" /\ op # "renderFail"
                       THEN SendNavigateToAudience(st1, audience, page) ELSE << >>, ev)

\* renderCurrentPage(page) goes on from stage `from` to its next suspension or
\* to its end, where navigateTo (kind "nav") notifies the audience
Resume(op, i, st1, page, from, ev, shown) ==
    LET t == tasks[i]
        s == IF from <= 3 THEN NextSuspension(st1, page, from) ELSE 4
    IN  /\ AppState' = st1
        /\ shownPage' = Shown(st1, page, from, s, shown)
        /\ IF s <= 3
           THEN /\ tasks' = [tasks EXCEPT ![i] = Task(t.kind, st1, page, s, << >>)]
                /\ Ran(op, page, << >>, ev)
           ELSE /\ tasks' = RemoveAt(tasks, i)
                /\ Ran(op, page,
                       IF t.kind = "nav"
                       THEN SendNavigateToAudience(st1, audience, page) ELSE << >>, ev)

\* a suspended renderFullPage is resumed by the engine: the canvas is cached
RenderComplete ==
    \E i \in DOMAIN tasks :
        /\ tasks[i].stage \in 1..3
        /\ LET t  == tasks[i]
               ev == Evicted(AppState.pageCache)
           IN  /\ Resume("render", i,
                         [AppState EXCEPT !.pageCache = CacheInsert(@, t.key, t.doc)],
                         t.page, t.stage + 1, ev,
                         IF t.stage = 1 THEN t.page ELSE shownPage)
               /\ insertLog' = LogInsert(insertLog, ev, t.key)
        /\ UNCHANGED << screen, audience, inbox, isPointerActive, lastPointerSendTime,
                        now, ranFor, helloSinceOpen, moveSendTimes,
                    regions, pushed, intervals >>

\* getPage or render rejects: renderCurrentPage catches and returns
RenderFail ==
    \E i \in DOMAIN tasks :
        /\ tasks[i].stage \in 1..3
        /\ Resume("renderFail", i, AppState, tasks[i].page, 4, << >>, shownPage)
        /\ UNCHANGED << screen, audience, inbox, isPointerActive, lastPointerSendTime,
                        now, ranFor, insertLog, helloSinceOpen, moveSendTimes,
                    regions, pushed, intervals >>

RenderFullPageEntryUnchecked(st, key) ==
    IF MapHas(st.pageCache, key) THEN "cached" ELSE "engine"

\* renderFullPage(pageNum, scale) up to its first await: it throws when no
\* document is loaded, returns the cached canvas, or asks the engine
RenderFullPageEntry(st, key) ==
    IF st.pdfDoc = NULL THEN "DocumentNotLoaded"
    ELSE IF MapHas(st.pageCache, key) THEN "cached" ELSE "engine"

\* scales a caller passes, in tenths
ScaleInputs == {DefaultScale, NotesScale(DefaultScale)}

\* a bare call of renderFullPage: suspended in the engine it is an invocation
\* with nothing left to do after its stage
CallRenderFullPage ==
    /\ \E pageNum \in 1..NumPages(MaxDocs), scale \in ScaleInputs :
        LET key == << pageNum, scale >>
            entry == RenderFullPageEntry(AppState, key)
        IN  /\ IF entry = "engine"
               THEN /\ Len(tasks) < MaxTasks
                    /\ tasks' = Append(tasks, [kind |-> "call", page |-> pageNum, stage |-> 3,
                                               key |-> key, doc |-> AppState.pdfDoc,
                                               prior |-> << >>])
               ELSE tasks' = tasks
            /\ Ran(entry, pageNum, << >>, << >>)
    /\ UNCHANGED << AppState, screen, shownPage, audience, inbox, isPointerActive,
                    lastPointerSendTime, now, ranFor, insertLog, helloSinceOpen, moveSendTimes,
                    regions, pushed, intervals >>

\* ------------------------------------------------------------- documents
\* handleFileSelect(file) up to the decode in loadPdfFromBuffer: the bytes are
\* stored for sharing before the engine is asked to decode them
HandleFileSelect(files) ==
    /\ screen = "start"
    /\ \E d \in files, isPdfName \in BOOLEAN :
        IF ~isPdfName
        THEN /\ Ran("handleFileSelect", 0, << >>, << >>)
             /\ UNCHANGED << AppState, tasks >>
        ELSE /\ Len(tasks) < MaxTasks
             /\ AppState' = [AppState EXCEPT !.pdfData = d]
             /\ tasks' = Append(tasks, [kind |-> "load", page |-> 0, stage |-> 0,
                                        key |-> << 0, 0 >>, doc |-> d,
                                        prior |-> Prior(AppState, tasks)])
             /\ Ran("handleFileSelect", d, << >>, << >>)
    /\ UNCHANGED << screen, shownPage, audience, inbox, isPointerActive, lastPointerSendTime, now, ranFor,
                    insertLog, helloSinceOpen, moveSendTimes,
                    regions, pushed, intervals >>

\* handleUrlLoad() up to the fetch in loadPdfFromUrl
HandleUrlLoad(files) ==
    /\ screen = "start"
    /\ \E d \in files, emptyUrl \in BOOLEAN :
        IF emptyUrl
        THEN /\ Ran("handleUrlLoad", 0, << >>, << >>)
             /\ UNCHANGED tasks
        ELSE /\ Len(tasks) < MaxTasks
             /\ tasks' = Append(tasks, [kind |-> "load", page |-> 0, stage |-> -1,
                                        key |-> << 0, 0 >>, doc |-> d,
                                        prior |-> Prior(AppState, tasks)])
             /\ Ran("handleUrlLoad", d, << >>, << >>)
    /\ UNCHANGED << AppState, screen, shownPage, audience, inbox, isPointerActive,
                    lastPointerSendTime, now, ranFor, insertLog, helloSinceOpen, moveSendTimes,
                    regions, pushed, intervals >>

\* loadPdfFromUrl: the response arrived, its bytes and the URL are stored
FetchedState(st, d) == [st EXCEPT !.pdfData = d, !.pdfUrl = d]

Fetched ==
    \E i \in DOMAIN tasks :
        /\ tasks[i].stage = -1
        /\ AppState' = FetchedState(AppState, tasks[i].doc)
        /\ tasks' = [tasks EXCEPT ![i].stage = 0]
        /\ Ran("fetched", tasks[i].doc, << >>, << >>)
        /\ UNCHANGED << screen, shownPage, audience, inbox, isPointerActive,
                        lastPointerSendTime, now, ranFor, insertLog, helloSinceOpen, moveSendTimes,
                        regions, pushed, intervals >>

\* fetch rejects or the response is not ok: handleUrlLoad catches
FetchFailed ==
    \E i \in DOMAIN tasks :
        /\ tasks[i].stage = -1
        /\ tasks' = RemoveAt(tasks, i)
        /\ Ran("fetchFailed", tasks[i].doc, << >>, << >>)
        /\ UNCHANGED << AppState, screen, shownPage, audience, inbox, isPointerActive,
                        lastPointerSendTime, now, ranFor, insertLog, helloSinceOpen, moveSendTimes,
                        regions, pushed, intervals >>

\* startClock(element): the running interval is cleared, a new one is set
StartClock(iv) == [iv EXCEPT !.clock = 1]

\* loadPdfFromBuffer after the decode, then handleFileSelect: settings, screen
\* switch, first render
Loaded(st, d, set) ==
    [st EXCEPT !.pdfDoc = d, !.totalPages = NumPages(d), !.currentPage = 1,
               !.pageCache = << >>,
               !.location = set.location, !.split = set.split, !.scale = set.scale,
               !.showNextPreview = set.showNextPreview]

LoadDecoded ==
    \E i \in DOMAIN tasks, set \in SettingsInputs :
        /\ tasks[i].stage = 0
        /\ Resume("loaded", i, Loaded(AppState, tasks[i].doc, set), 1, 1, << >>, shownPage)
        /\ screen' = "presenter"
        /\ intervals' = StartClock(intervals)
        /\ insertLog' = << >>
        /\ UNCHANGED << audience, inbox, isPointerActive, lastPointerSendTime, now, ranFor,
                        helloSinceOpen, moveSendTimes, regions, pushed >>

\* the decode rejects: handleFileSelect catches and shows a toast
LoadFailed ==
    \E i \in DOMAIN tasks :
        /\ tasks[i].stage = 0
        /\ tasks' = RemoveAt(tasks, i)
        /\ Ran("loadFailed", tasks[i].doc, << >>, << >>)
        /\ UNCHANGED << AppState, screen, shownPage, audience, inbox, isPointerActive,
                        lastPointerSendTime, now, ranFor, insertLog, helloSinceOpen, moveSendTimes,
                    regions, pushed, intervals >>

HomeResetKeepsCache(st) ==
    [st EXCEPT !.pdfDoc = NULL, !.pdfData = NULL, !.pdfUrl = NULL,
               !.totalPages = 0, !.currentPage = 1]

\* the Home button, confirmed
HomeReset(st) ==
    [st EXCEPT !.pdfDoc = NULL, !.pdfData = NULL, !.pdfUrl = NULL,
               !.totalPages = 0, !.currentPage = 1, !.pageCache = << >>]

HomeClick ==
    /\ screen = "presenter"
    /\ AppState' = HomeReset(AppState)
    /\ screen' = "start"
    /\ shownPage' = 0
    /\ insertLog' = << >>
    /\ Ran("home", 0, << >>, << >>)
    /\ UNCHANGED << tasks, audience, inbox, isPointerActive, lastPointerSendTime, now, ranFor,
                    helloSinceOpen, moveSendTimes,
                    regions, pushed, intervals >>

\* ------------------------------------------------------- audience window
\* openAudienceWindow(): window.open returns the window named BeamerAudience,
\* loading audience.html in it, or null when the popup is blocked
OpenedState(st, handle) == [st EXCEPT !.audienceWindow = handle]

OpenAudienceWindow ==
    /\ \E blocked \in BOOLEAN :
        IF blocked
        THEN /\ AppState' = OpenedState(AppState, NULL)
             /\ audience' = audience
             /\ Ran("openAudienceWindow", 0, << >>, << >>)
        ELSE /\ AppState' = OpenedState(AppState, Handle)
             /\ audience' = [closed |-> FALSE, starting |-> TRUE,
                              sessionId |-> AudienceSession,
                              received |-> << >>, calls |-> << >>]
             /\ Ran("openAudienceWindow", 1, << >>, << >>)
    /\ inbox' = [i \in DOMAIN inbox |-> [inbox[i] EXCEPT !.fresh = FALSE]]
    /\ helloSinceOpen' = FALSE
    /\ UNCHANGED << screen, shownPage, tasks, isPointerActive, lastPointerSendTime, now, ranFor, insertLog,
                    moveSendTimes,
                    regions, pushed, intervals >>

\* requestAudienceFullscreen(): posts directly, behind its own handle check
RequestFullscreenSends(st, aud) ==
    IF WindowLive(st, aud)
    THEN << [type |-> "REQUEST_FULLSCREEN", payload |-> << >>, posted |-> TRUE] >>
    ELSE << >>

RequestAudienceFullscreen ==
    /\ Ran("requestAudienceFullscreen", 0, RequestFullscreenSends(AppState, audience), << >>)
    /\ UNCHANGED << AppState, screen, shownPage, tasks, audience, inbox, isPointerActive,
                    lastPointerSendTime, now, ranFor, insertLog, helloSinceOpen, moveSendTimes,
                    regions, pushed, intervals >>

\* isAudienceConnected()
IsAudienceConnected(st, aud) ==
    st.audienceWindow # NULL /\ ~aud.closed /\ st.isAudienceConnected

\* the user closes the audience window
CloseAudience ==
    /\ ~audience.closed
    /\ audience' = [audience EXCEPT !.closed = TRUE, !.starting = FALSE]
    /\ Ran("closeAudience", 0, << >>, << >>)
    /\ UNCHANGED << AppState, screen, shownPage, tasks, inbox, isPointerActive, lastPointerSendTime,
                    now, ranFor, insertLog, helloSinceOpen, moveSendTimes,
                    regions, pushed, intervals >>

\* the user reloads the audience window, or navigates it away and back
AudienceReload ==
    /\ ~audience.closed /\ ~audience.starting
    /\ audience' = [audience EXCEPT !.starting = TRUE]
    /\ Ran("audienceReload", 0, << >>, << >>)
    /\ UNCHANGED << AppState, screen, shownPage, tasks, inbox, isPointerActive, lastPointerSendTime,
                    now, ranFor, insertLog, helloSinceOpen, moveSendTimes,
                    regions, pushed, intervals >>

\* audience startup: sendHelloToPresenter(window.opener)
SendHelloToPresenter(box) ==
    Append(box, [type |-> "HELLO", sessionId |-> AudienceSession, fresh |-> TRUE])

AudienceStartup ==
    /\ ~audience.closed /\ audience.starting
    /\ Len(inbox) < MaxInbox
    /\ inbox' = SendHelloToPresenter(inbox)
    /\ audience' = [audience EXCEPT !.starting = FALSE]
    /\ pushed' = NULL
    /\ Ran("audienceStartup", 0, << >>, << >>)
    /\ UNCHANGED << AppState, screen, shownPage, tasks, isPointerActive, lastPointerSendTime, now, ranFor,
                    insertLog, helloSinceOpen, moveSendTimes, regions, intervals >>

\* the document bytes the audience holds after the sends of one step: those
\* of the last PDF_DATA posted
Received(out, prev) ==
    IF \E i \in DOMAIN out : out[i].type = "PDF_DATA" /\ out[i].posted
    THEN LET i == CHOOSE j \in DOMAIN out :
                    /\ out[j].type = "PDF_DATA" /\ out[j].posted
                    /\ \A k \in DOMAIN out :
                            (out[k].type = "PDF_DATA" /\ out[k].posted) => k <= j
         IN  out[i].payload.data
    ELSE prev

TransferOriginal(st, aud) ==
    IF st.pdfData # NULL /\ WindowLive(st, aud)
    THEN [st EXCEPT !.pdfData = Detached] ELSE st

\* sendPdfDataToAudience's transfer list holds dataClone, the slice: posting
\* detaches the slice and leaves AppState.pdfData as it is
TransferClone(st, aud) == st

\* handleAudienceMessage, case HELLO: the flag, then the sends
HelloState(st) == [st EXCEPT !.isAudienceConnected = TRUE]

HelloResyncPdfFirst(st, aud) ==
    (IF st.pdfData # NULL THEN SendPdfDataToAudience(st, aud) ELSE << >>)
        \o SendStateToAudience(st, aud)

HelloResyncOnce(st, aud) ==
    IF helloSinceOpen THEN << >>
    ELSE SendStateToAudience(st, aud)
            \o (IF st.pdfData # NULL THEN SendPdfDataToAudience(st, aud) ELSE << >>)

HelloResync(st, aud) ==
    SendStateToAudience(st, aud)
        \o (IF st.pdfData # NULL THEN SendPdfDataToAudience(st, aud) ELSE << >>)

OnAudienceMessageDefaultHello(st, aud, msg) ==
    IF msg.type = "" THEN [st |-> st, out |-> << >>]
    ELSE IF msg.type = "ERROR" THEN [st |-> st, out |-> << >>]
    ELSE [st  |-> TransferClone(HelloState(st), aud),
          out |-> HelloResync(HelloState(st), aud)]

\* handleAudienceMessage(event): the state it leaves and what it sends; "" is
\* a message without a type; ERROR is logged; the switch has no default
OnAudienceMessage(st, aud, msg) ==
    IF msg.type = "" THEN [st |-> st, out |-> << >>]
    ELSE IF msg.type = "HELLO"
         THEN [st  |-> TransferClone(HelloState(st), aud),
               out |-> HelloResync(HelloState(st), aud)]
    ELSE [st |-> st, out |-> << >>]

HandleAudienceMessage ==
    /\ inbox # << >>
    /\ LET msg == Head(inbox)
           res == OnAudienceMessage(AppState, audience, msg)
       IN  /\ AppState' = res.st
           /\ helloSinceOpen' = (helloSinceOpen \/ (msg.type = "HELLO" /\ msg.fresh))
           /\ pushed' = Received(res.out, pushed)
           /\ Ran(CASE msg.type = "HELLO" -> "hello"
                    [] msg.type = "ERROR" -> "error"
                    [] OTHER -> "message",
                  IF msg.type = "HELLO" /\ AppState.isAudienceConnected THEN 1 ELSE 0,
                  res.out, << >>)
    /\ inbox' = Tail(inbox)
    /\ UNCHANGED << screen, shownPage, tasks, audience, isPointerActive, lastPointerSendTime, now, ranFor,
                    insertLog, moveSendTimes, regions, intervals >>

\* message types a window can post to the presenter
PresenterInputs == {"HELLO", "ERROR", "STATE", ""}

\* some window holding a reference to the presenter posts a message to it
PostToPresenter ==
    /\ Len(inbox) < MaxInbox
    /\ \E type \in PresenterInputs, sessionId \in SessionIds :
        inbox' = Append(inbox, [type |-> type, sessionId |-> sessionId, fresh |-> FALSE])
    /\ Ran("postToPresenter", 0, << >>, << >>)
    /\ UNCHANGED << AppState, screen, shownPage, tasks, audience, isPointerActive,
                    lastPointerSendTime, now, ranFor, insertLog, helloSinceOpen, moveSendTimes,
                    regions, pushed, intervals >>

\* message types and payloads a window can post to the audience
AudienceInputs == {"STATE", "NAVIGATE", "MODE", "PDF_DATA", "POINTER", ""}

Payloads ==
    { [page |-> MaxPages, mode |-> "black", data |-> MaxDocs,
       location |-> "top", split |-> DefaultSplit] }

HandlePresenterMessageChecked(aud, msg) ==
    LET calls ==
            CASE msg.type = "STATE"    -> << [name |-> "onState", args |-> << msg.payload >>] >>
              [] msg.type = "NAVIGATE" ->
                    << [name |-> "onNavigate", args |-> << msg.payload.page >>] >>
              [] msg.type = "MODE"     -> << [name |-> "onMode", args |-> << msg.payload.mode >>] >>
              [] msg.type = "PDF_DATA" ->
                    << [name |-> "onPdfData",
                        args |-> << msg.payload.data, msg.payload.location,
                                    msg.payload.split >>] >>
              [] OTHER -> << >>
    IN  [aud EXCEPT !.calls = IF msg.sessionId = PresenterSession THEN calls ELSE << >>]

\* handlePresenterMessage(event, callbacks) in the audience window: the
\* session id it keeps and the callbacks it invokes
HandlePresenterMessage(aud, msg) ==
    LET sid == IF aud.sessionId = "" /\ msg.sessionId # "" THEN msg.sessionId
               ELSE aud.sessionId
        calls ==
            CASE msg.type = "STATE"    -> << [name |-> "onState", args |-> << msg.payload >>] >>
              [] msg.type = "NAVIGATE" ->
                    << [name |-> "onNavigate", args |-> << msg.payload.page >>] >>
              [] msg.type = "MODE"     -> << [name |-> "onMode", args |-> << msg.payload.mode >>] >>
              [] msg.type = "PDF_DATA" ->
                    << [name |-> "onPdfData",
                        args |-> << msg.payload.data, msg.payload.location,
                                    msg.payload.split >>] >>
              [] OTHER -> << >>
    IN  [aud EXCEPT !.sessionId = sid, !.calls = calls]

\* a message event in the audience window, once its listener is set up
PresenterMessageArrives ==
    /\ ~audience.closed /\ ~audience.starting
    /\ \E type \in AudienceInputs, sessionId \in SessionIds, payload \in Payloads :
        LET msg == [type |-> type, sessionId |-> sessionId, payload |-> payload]
        IN  audience' = [HandlePresenterMessage(audience, msg) EXCEPT !.received = msg]
    /\ Ran("presenterMessage", 0, << >>, << >>)
    /\ UNCHANGED << AppState, screen, shownPage, tasks, inbox, isPointerActive,
                    lastPointerSendTime, now, ranFor, insertLog, helloSinceOpen, moveSendTimes,
                    regions, pushed, intervals >>

\* ------------------------------------------------------------- pointer
\* getPointerCoords(e): << >> stands for null
GetPointerCoords(e) ==
    IF e[1] < 0 \/ e[1] > 100 \/ e[2] < 0 \/ e[2] > 100 THEN << >> ELSE e

ThrottleComparesTimes(t, lastT) == t >= lastT

\* sendPointerThrottled lets the send through
ThrottlePasses(t, lastT) == t - lastT >= POINTER_THROTTLE_MS

KeepLast(seq, n) == IF Len(seq) > n THEN SubSeq(seq, Len(seq) - n + 1, Len(seq)) ELSE seq

MouseDown ==
    /\ screen = "presenter"
    /\ \E button \in MouseButtons, e \in MousePositions :
        IF button # 0
        THEN /\ Ran("mousedown", button, << >>, << >>)
             /\ UNCHANGED isPointerActive
        ELSE /\ isPointerActive' = TRUE
             /\ LET coords == GetPointerCoords(e)
                IN  Ran("mousedown", button,
                        IF coords # << >>
                        THEN SendPointerToAudience(AppState, audience, coords[1], coords[2], TRUE)
                        ELSE << >>, << >>)
    /\ UNCHANGED << AppState, screen, shownPage, tasks, audience, inbox, lastPointerSendTime, now, ranFor,
                    insertLog, helloSinceOpen, moveSendTimes,
                    regions, pushed, intervals >>

MouseMove ==
    /\ screen = "presenter"
    /\ \E e \in MousePositions :
        LET coords == GetPointerCoords(e)
        IN  IF ~isPointerActive
            THEN /\ Ran("mousemove", 0, << >>, << >>)
                 /\ UNCHANGED << lastPointerSendTime, moveSendTimes >>
            ELSE IF coords # << >>
            THEN IF ThrottlePasses(now, lastPointerSendTime)
                 THEN /\ Ran("mousemove", 1,
                             SendPointerToAudience(AppState, audience, coords[1], coords[2], TRUE),
                             << >>)
                      /\ lastPointerSendTime' = now
                      /\ moveSendTimes' = KeepLast(Append(moveSendTimes, now), 5)
                 ELSE /\ Ran("mousemove", 1, << >>, << >>)
                      /\ UNCHANGED << lastPointerSendTime, moveSendTimes >>
            ELSE /\ Ran("mousemove", 2,
                        SendPointerToAudience(AppState, audience, NULL, NULL, FALSE), << >>)
                 /\ UNCHANGED << lastPointerSendTime, moveSendTimes >>
    /\ UNCHANGED << AppState, screen, shownPage, tasks, audience, inbox, isPointerActive, now, ranFor,
                    insertLog, helloSinceOpen,
                    regions, pushed, intervals >>

MouseUpSendsThrottled(st, aud, t, lastT) ==
    IF t - lastT >= POINTER_THROTTLE_MS
    THEN SendPointerToAudience(st, aud, NULL, NULL, FALSE) ELSE << >>

\* what the mouseup handler sends
MouseUpSends(st, aud, t, lastT) == SendPointerToAudience(st, aud, NULL, NULL, FALSE)

MouseUp ==
    /\ screen = "presenter"
    /\ \E button \in MouseButtons :
        IF button # 0
        THEN /\ Ran("mouseup", button, << >>, << >>)
             /\ UNCHANGED isPointerActive
        ELSE /\ isPointerActive' = FALSE
             /\ Ran("mouseup", button,
                    MouseUpSends(AppState, audience, now, lastPointerSendTime), << >>)
    /\ UNCHANGED << AppState, screen, shownPage, tasks, audience, inbox, lastPointerSendTime, now, ranFor,
                    insertLog, helloSinceOpen, moveSendTimes,
                    regions, pushed, intervals >>

MouseLeave ==
    /\ screen = "presenter"
    /\ IF isPointerActive
       THEN /\ isPointerActive' = FALSE
            /\ Ran("mouseleave", 1,
                   SendPointerToAudience(AppState, audience, NULL, NULL, FALSE), << >>)
       ELSE /\ Ran("mouseleave", 0, << >>, << >>)
            /\ UNCHANGED isPointerActive
    /\ UNCHANGED << AppState, screen, shownPage, tasks, audience, inbox, lastPointerSendTime, now, ranFor,
                    insertLog, helloSinceOpen, moveSendTimes,
                    regions, pushed, intervals >>

\* time passes
Tick ==
    \E d \in TickSteps :
        /\ now + d <= MaxTime
        /\ now' = now + d
        /\ ranFor' = IF AppState.timerState = "running" THEN ranFor + d ELSE ranFor
        /\ Ran("tick", 0, << >>, << >>)
        /\ UNCHANGED << AppState, screen, shownPage, tasks, audience, inbox, isPointerActive,
                        lastPointerSendTime, insertLog, helloSinceOpen, moveSendTimes,
                    regions, pushed, intervals >>

\* --------------------------------------------------------------- timer
\* getElapsedTime()
GetElapsedTime(st, t) ==
    CASE st.timerState = "stopped" -> 0
      [] st.timerState = "paused" -> st.timerElapsed
      [] OTHER -> st.timerElapsed + (t - st.timerStartTime)

StartTimerRestarts(st, t) ==
    IF st.timerState = "running" THEN st
    ELSE [st EXCEPT !.timerElapsed = 0, !.timerStartTime = t, !.timerState = "running"]

\* startTimer(element)
StartTimer(st, t) ==
    IF st.timerState = "running" THEN st
    ELSE [st EXCEPT !.timerElapsed = IF st.timerState = "stopped" THEN 0 ELSE @,
                    !.timerStartTime = t, !.timerState = "running"]

\* pauseTimer(element)
PauseTimer(st, t) ==
    IF st.timerState # "running" THEN st
    ELSE [st EXCEPT !.timerElapsed = GetElapsedTime(st, t), !.timerState = "paused"]

\* resetTimer(element)
ResetTimer(st) ==
    [st EXCEPT !.timerState = "stopped", !.timerStartTime = NULL, !.timerElapsed = 0]

PauseTimerKeepsTick(st, iv) == iv

\* timerInterval after startTimer, pauseTimer, resetTimer: 1 is scheduled
StartTimerTick(st, iv) == IF st.timerState = "running" THEN iv ELSE 1

PauseTimerTick(st, iv) == IF st.timerState # "running" THEN iv ELSE 0

ResetTimerTick(st, iv) == 0

\* the running time counted anew when the timer leaves "stopped"
RanForAfterStart(st) == IF st.timerState = "stopped" THEN 0 ELSE ranFor

TimerFrame ==
    UNCHANGED << screen, shownPage, tasks, audience, inbox, isPointerActive,
                 lastPointerSendTime, now, insertLog, helloSinceOpen, moveSendTimes,
                 regions, pushed >>

\* startTimer(element)
StartTimerCall ==
    /\ AppState' = StartTimer(AppState, now)
    /\ intervals' = [intervals EXCEPT !.timer = StartTimerTick(AppState, @)]
    /\ ranFor' = RanForAfterStart(AppState)
    /\ Ran("startTimer", 0, << >>, << >>)
    /\ TimerFrame

\* pauseTimer(element)
PauseTimerCall ==
    /\ AppState' = PauseTimer(AppState, now)
    /\ intervals' = [intervals EXCEPT !.timer = PauseTimerTick(AppState, @)]
    /\ ranFor' = ranFor
    /\ Ran("pauseTimer", 0, << >>, << >>)
    /\ TimerFrame

\* the Start/Pause button: toggleTimer(element)
ToggleTimer ==
    /\ screen = "presenter"
    /\ IF AppState.timerState = "running"
       THEN /\ AppState' = PauseTimer(AppState, now)
            /\ intervals' = [intervals EXCEPT !.timer = PauseTimerTick(AppState, @)]
            /\ ranFor' = ranFor
       ELSE /\ AppState' = StartTimer(AppState, now)
            /\ intervals' = [intervals EXCEPT !.timer = StartTimerTick(AppState, @)]
            /\ ranFor' = RanForAfterStart(AppState)
    /\ Ran("toggleTimer", 0, << >>, << >>)
    /\ TimerFrame

\* the Reset button
ResetTimerClick ==
    /\ screen = "presenter"
    /\ AppState' = ResetTimer(AppState)
    /\ intervals' = [intervals EXCEPT !.timer = ResetTimerTick(AppState, @)]
    /\ ranFor' = 0
    /\ Ran("resetTimer", 0, << >>, << >>)
    /\ TimerFrame

\* ------------------------------------------------------------- regions
Locations == {"right", "left", "top", "bottom"}
LocationInputs == Locations \cup {"center"}
\* split ratios, in percent
SplitInputs == {10, 25, 50, 75, 90}

\* a rectangle; coordinates and sizes are in hundredths of a pixel, so that
\* width * split is exact
Rect(x, y, w, h) == [x |-> x, y |-> y, w |-> w, h |-> h]

GetRegionsOverlapping(width, height, location, split) ==
    [threw |-> FALSE,
     audience |-> Rect(0, 0, width * split, height * 100),
     notes |-> Rect(0, 0, width * (100 - split), height * 100)]

\* getRegions(width, height, location, split), split in percent
GetRegions(width, height, location, split) ==
    LET zero == Rect(0, 0, 0, 0)
        ws == width * split
        wr == width * (100 - split)
        hs == height * split
        hr == height * (100 - split)
        W  == width * 100
        H  == height * 100
    IN  CASE location = "right" ->
                [threw |-> FALSE, audience |-> Rect(0, 0, ws, H), notes |-> Rect(ws, 0, wr, H)]
          [] location = "left" ->
                [threw |-> FALSE, notes |-> Rect(0, 0, ws, H), audience |-> Rect(ws, 0, wr, H)]
          [] location = "top" ->
                [threw |-> FALSE, notes |-> Rect(0, 0, W, hs), audience |-> Rect(0, hs, W, hr)]
          [] location = "bottom" ->
                [threw |-> FALSE, audience |-> Rect(0, 0, W, hs), notes |-> Rect(0, hs, W, hr)]
          [] OTHER ->
                [threw |-> FALSE, audience |-> zero, notes |-> zero]

\* a caller splits a raster
CallGetRegions ==
    /\ \E width \in 1..MaxDim, height \in 1..MaxDim,
          location \in LocationInputs, split \in SplitInputs :
            regions' = [width |-> width, height |-> height, location |-> location,
                        split |-> split,
                        result |-> GetRegions(width, height, location, split)]
    /\ Ran("getRegions", 0, << >>, << >>)
    /\ UNCHANGED << AppState, screen, shownPage, tasks, audience, inbox, isPointerActive,
                    lastPointerSendTime, now, ranFor, insertLog, helloSinceOpen, moveSendTimes,
                    pushed, intervals >>

\* --------------------------------------------------------- specifications
\* Rendering is kept sequential here: at most one invocation is suspended.
Sequential == Len(tasks') <= 1

\* documents, navigation and the page cache, the engine never failing
NextCache ==
    \/ HandleFileSelect(Docs) /\ Sequential
    \/ LoadDecoded /\ Sequential
    \/ LoadFailed
    \/ HomeClick
    \/ GoTo /\ Sequential
    \/ NextPage /\ Sequential
    \/ PrevPage /\ Sequential
    \/ RenderComplete

SpecCache == Init /\ [][NextCache]_vars

\* navigation on the two-page document, renders overlapping and failing
NextNav ==
    \/ HandleFileSelect({2})
    \/ LoadDecoded
    \/ LoadFailed
    \/ HomeClick
    \/ GoTo
    \/ NextPage
    \/ PrevPage
    \/ RenderComplete
    \/ RenderFail
    \/ OpenAudienceWindow

SpecNav == Init /\ [][NextNav]_vars

\* the laser pointer during navigation
NextLaser ==
    \/ HandleFileSelect({2}) /\ Sequential
    \/ LoadDecoded /\ Sequential
    \/ HomeClick
    \/ GoTo /\ Sequential
    \/ RenderComplete
    \/ RenderFail
    \/ MouseDown
    \/ MouseMove
    \/ MouseUp
    \/ MouseLeave
    \/ OpenAudienceWindow
    \/ CloseAudience

SpecLaser == Init /\ [][NextLaser]_vars

\* the handshake
NextSync ==
    \/ HandleFileSelect({2}) /\ Sequential
    \/ LoadDecoded /\ Sequential
    \/ LoadFailed
    \/ HomeClick
    \/ GoTo /\ Sequential
    \/ RenderComplete
    \/ OpenAudienceWindow
    \/ CloseAudience
    \/ AudienceReload
    \/ AudienceStartup
    \/ HandleAudienceMessage

SpecSync == Init /\ [][NextSync]_vars

\* the laser pointer against the clock
NextPointer ==
    \/ HandleFileSelect({2}) /\ Sequential
    \/ LoadDecoded /\ Sequential
    \/ RenderComplete
    \/ MouseDown
    \/ MouseMove
    \/ MouseUp
    \/ MouseLeave
    \/ Tick

SpecPointer == Init /\ [][NextPointer]_vars

\* loading documents from files and URLs
NextLoad ==
    \/ HandleFileSelect(Docs) /\ Sequential
    \/ HandleUrlLoad(Docs) /\ Sequential
    \/ Fetched
    \/ FetchFailed
    \/ LoadDecoded
    \/ LoadFailed
    \/ RenderComplete
    \/ GoTo /\ Sequential
    \/ HomeClick

SpecLoad == Init /\ [][NextLoad]_vars

\* sends with and without a usable audience window
NextSend ==
    \/ HandleFileSelect({2}) /\ Sequential
    \/ LoadDecoded /\ Sequential
    \/ RenderComplete
    \/ NextPage /\ Sequential
    \/ OpenAudienceWindow
    \/ CloseAudience
    \/ AudienceStartup
    \/ HandleAudienceMessage
    \/ RequestAudienceFullscreen

SpecSend == Init /\ [][NextSend]_vars

\* the clock, the timer and the connection poll over load/reset cycles
NextTimer ==
    \/ HandleFileSelect({2}) /\ Sequential
    \/ LoadDecoded /\ Sequential
    \/ RenderComplete
    \/ HomeClick
    \/ ToggleTimer
    \/ ResetTimerClick
    \/ Tick

SpecTimer == Init /\ [][NextTimer]_vars

\* renderFullPage called with and without a document, the engine failing
NextRender ==
    \/ HandleFileSelect({MaxDocs}) /\ Sequential
    \/ LoadDecoded /\ Sequential
    \/ RenderComplete
    \/ RenderFail
    \/ HomeClick
    \/ CallRenderFullPage

SpecRender == Init /\ [][NextRender]_vars

\* navigation going on after failed renders
NextRecover ==
    \/ HandleFileSelect({MaxDocs}) /\ Sequential
    \/ LoadDecoded /\ Sequential
    \/ GoTo /\ Sequential
    \/ RenderComplete
    \/ RenderFail
    \/ OpenAudienceWindow
    \/ CloseAudience

SpecRecover == Init /\ [][NextRecover]_vars

\* messages of every type and session id arriving in both windows
NextMessages ==
    \/ HandleFileSelect({MaxDocs}) /\ Sequential
    \/ OpenAudienceWindow
    \/ AudienceStartup
    \/ PostToPresenter
    \/ HandleAudienceMessage
    \/ PresenterMessageArrives

SpecMessages == Init /\ [][NextMessages]_vars

\* the stopwatch: its three functions, the two buttons, time passing
NextStopwatch ==
    \/ HandleFileSelect({MaxDocs}) /\ Sequential
    \/ LoadDecoded /\ Sequential
    \/ RenderComplete
    \/ HomeClick
    \/ StartTimerCall
    \/ PauseTimerCall
    \/ ToggleTimer
    \/ ResetTimerClick
    \/ Tick

SpecStopwatch == Init /\ [][NextStopwatch]_vars

\* a document replaced while renders of the previous one are suspended
NextReplace ==
    \/ HandleFileSelect(Docs)
    \/ LoadDecoded
    \/ RenderComplete
    \/ HomeClick

SpecReplace == Init /\ [][NextReplace]_vars

\* splitting rasters
NextRegions == CallGetRegions

SpecRegions == Init /\ [][NextRegions]_vars

\* ------------------------------------------------------------ properties
Sends(out, type) == { i \in DOMAIN out : out[i].type = type }

Live == AppState.audienceWindow # NULL /\ ~audience.closed

\* C1: navigateTo(page) with page < 1 or page > totalPages changes no session
\* field, starts no render and sends no message.
C1_OutOfRangeNavigationIsNoOp ==
    [][ (last'.op = "navigateTo" /\ (last'.arg < 1 \/ last'.arg > AppState.totalPages))
        => /\ AppState' = AppState
           /\ tasks' = tasks
           /\ last'.out = << >>
           /\ UNCHANGED << screen, shownPage, isPointerActive, lastPointerSendTime, lastPointer,
                           lastNavigate, insertLog >> ]_vars

C1_Witness ==
    /\ last.op = "navigateTo"
    /\ AppState.pdfDoc # NULL
    /\ AppState.currentPage = AppState.totalPages
    /\ last.arg = AppState.totalPages + 1
    /\ last.out = << >>

\* C2: handling a HELLO sets the connected flag and performs exactly one STATE
\* send carrying the current page, totalPages, location, split and mode, then
\* exactly one PDF_DATA send if and only if document bytes are loaded; both are
\* posted when the window handle is usable.
C2_HelloSendsStateThenPdfData ==
    [][ last'.op = "hello"
        => LET out == last'.out
           IN  /\ AppState'.isAudienceConnected
               /\ Cardinality(Sends(out, "STATE")) = 1
               /\ Cardinality(Sends(out, "PDF_DATA")) = (IF AppState.pdfData # NULL THEN 1 ELSE 0)
               /\ Len(out) = Cardinality(Sends(out, "STATE")) + Cardinality(Sends(out, "PDF_DATA"))
               /\ out[1].type = "STATE"
               /\ out[1].payload = [page |-> AppState.currentPage,
                                    totalPages |-> AppState.totalPages,
                                    location |-> AppState.location,
                                    split |-> AppState.split,
                                    mode |-> AppState.displayMode]
               /\ \A i \in DOMAIN out : out[i].posted = Live ]_vars

C2_Witness ==
    /\ last.op = "hello"
    /\ Len(last.out) = 2
    /\ last.out[1].type = "STATE" /\ last.out[1].posted
    /\ last.out[2].type = "PDF_DATA" /\ last.out[2].posted

\* C3: a HELLO handled after an earlier one triggers the full resync of the
\* presenter state at that moment, whatever was handled or sent before.
C3_FullResync ==
    << [type |-> "STATE",
        payload |-> [page |-> AppState.currentPage, totalPages |-> AppState.totalPages,
                     location |-> AppState.location, split |-> AppState.split,
                     mode |-> AppState.displayMode],
        posted |-> Live] >>
    \o (IF AppState.pdfData # NULL
        THEN << [type |-> "PDF_DATA",
                 payload |-> [data |-> AppState.pdfData, location |-> AppState.location,
                              split |-> AppState.split],
                 posted |-> Live] >>
        ELSE << >>)

C3_HandshakeIdempotent ==
    [][ (last'.op = "hello" /\ AppState.isAudienceConnected) => last'.out = C3_FullResync ]_vars

C3_Witness ==
    /\ last.op = "hello" /\ last.arg = 1
    /\ helloSinceOpen
    /\ Len(last.out) = 2 /\ last.out[2].posted

\* C4: after openAudienceWindow() the audience counts as connected only once a
\* HELLO of the newly opened window has been handled.
C4_DisconnectedUntilHello ==
    (AppState.audienceWindow # NULL /\ ~audience.closed /\ AppState.isAudienceConnected)
        => helloSinceOpen

\* C5: the page cache never holds more than 5 entries.
C5_CacheWithinCapacity == Len(AppState.pageCache) <= 5

\* C6: the Map's order is the order of insertion; an insertion that evicts
\* removes exactly one entry, the oldest-inserted key present; a step that only
\* reads the cache leaves it as it was.
C6_EvictionIsFifo ==
    [][ /\ MapKeys(AppState'.pageCache) = insertLog'
        /\ (last'.op = "render" /\ last'.evicted # << >>)
              => /\ last'.evicted = << insertLog[1] >>
                 /\ Len(AppState'.pageCache) >= Len(AppState.pageCache) - 1
                 /\ \A i \in 2..Len(insertLog) :
                        \E j \in DOMAIN AppState'.pageCache :
                            AppState'.pageCache[j].key = insertLog[i]
        /\ last'.op = "navigateTo" => AppState'.pageCache = AppState.pageCache ]_vars

C6_Witness ==
    /\ last.op = "render"
    /\ Len(last.evicted) = 1
    /\ Len(AppState.pageCache) > 1

\* C7: when the last of the navigations of the loaded document completes,
\* the page of the NAVIGATE it sends, the last one sent, equals the
\* presenter's currentPage.
C7_LastNavigateIsCurrentPage ==
    [][ ( /\ Len(tasks) = 1 /\ tasks' = << >>
          /\ tasks[1].kind = "nav" /\ tasks[1].doc = AppState.pdfDoc
          /\ screen = "presenter" /\ Live /\ last'.op = "render" )
        => lastNavigate' = AppState'.currentPage ]_vars

\* C8: while a navigation is suspended in the render of the new slide, after
\* its pointer-clear and before its NAVIGATE, with the old page still on the
\* canvas, no pointer-move sends a POINTER with active:true.
C8_NoStalePointerDuringNavigation ==
    (\E i \in DOMAIN tasks :
        /\ tasks[i].kind = "nav" /\ tasks[i].stage = 1
        /\ shownPage # 0 /\ tasks[i].page # shownPage)
        => ~(last.op = "mousemove"
             /\ \E j \in DOMAIN last.out :
                    last.out[j].type = "POINTER" /\ last.out[j].payload.active
                    /\ last.out[j].posted)

C10_FewerThanFourIn100ms ==
    Len(moveSendTimes) >= 4 =>
        moveSendTimes[Len(moveSendTimes)] - moveSendTimes[Len(moveSendTimes) - 3] >= 100

\* C10 amended: the move handler's POINTER messages are at least 33 ms apart,
\* so it never emits 5 of them within a 100 ms span.
C10_FewerThanFiveIn100ms ==
    /\ \A i \in 1..(Len(moveSendTimes) - 1) :
            moveSendTimes[i + 1] - moveSendTimes[i] >= 33
    /\ Len(moveSendTimes) >= 5 =>
            moveSendTimes[Len(moveSendTimes)] - moveSendTimes[Len(moveSendTimes) - 4] > 100

C10_Witness ==
    /\ Len(moveSendTimes) = 5
    /\ moveSendTimes[4] - moveSendTimes[1] < 100
    /\ last.op = "mousemove"

\* C11: a load that fails (name not .pdf, empty URL, failed fetch, failed
\* decode) leaves pdfDoc, pdfData, pdfUrl, totalPages, currentPage and the
\* layout settings as they were when the load was attempted, and no step of
\* it touches the page cache.
C11_FailedLoadLeavesSessionUntouched ==
    [][ /\ (last'.op \in {"loadFailed", "fetchFailed"} /\ Len(tasks) = 1)
            => Session(AppState') = tasks[1].prior
        /\ (last'.op \in {"handleFileSelect", "handleUrlLoad"} /\ last'.arg = 0)
            => Session(AppState') = Session(AppState)
        /\ last'.op \in {"handleFileSelect", "handleUrlLoad", "fetched",
                          "fetchFailed", "loadFailed"}
            => AppState'.pageCache = AppState.pageCache ]_vars

\* C12: with the audience window handle null or closed, every send of a step
\* (STATE, NAVIGATE, PDF_DATA, MODE, the fullscreen request) returns
\* without posting, once per message, and changes no presenter state: the
\* fullscreen request changes nothing, a HELLO only sets the connected flag;
\* nothing is sent again when a window is opened later.
C12_SendsAreSafeNoOps ==
    [][ /\ ~Live =>
            /\ \A i \in DOMAIN last'.out : ~last'.out[i].posted
            /\ \A i, j \in DOMAIN last'.out :
                    last'.out[i].type = last'.out[j].type => i = j
            /\ last'.op = "requestAudienceFullscreen"
                    => (AppState' = AppState /\ tasks' = tasks /\ last'.out = << >>)
            /\ last'.op = "hello" => AppState' = HelloState(AppState)
            /\ \A mode \in Modes :
                    LET out == SendModeToAudience(AppState, audience, mode)
                    IN  Len(out) = 1 /\ ~out[1].posted
        /\ \A i \in DOMAIN last'.out : last'.out[i].posted => Live
        /\ last'.op = "openAudienceWindow" => last'.out = << >> ]_vars

C12_Witness ==
    /\ last.op = "hello"
    /\ AppState.audienceWindow # NULL /\ audience.closed
    /\ Len(last.out) = 2
    /\ ~last.out[1].posted /\ ~last.out[2].posted

\* C13: a PDF_DATA transfer leaves the presenter's bytes as they are: its
\* payload carries the content of AppState.pdfData, and pdfData is the same
\* afterwards, never detached; only a load or Home replaces pdfData.
C13_PdfDataSurvivesTransfer ==
    [][ /\ last'.op = "hello" =>
            /\ AppState'.pdfData = AppState.pdfData
            /\ \A i \in DOMAIN last'.out :
                    last'.out[i].type = "PDF_DATA"
                        => last'.out[i].payload.data = AppState.pdfData
        /\ AppState'.pdfData # Detached
        /\ last'.op \notin {"handleFileSelect", "home"}
            => AppState'.pdfData = AppState.pdfData ]_vars

C13_Witness ==
    /\ last.op = "hello" /\ last.arg = 1
    /\ AppState.pdfData \in Docs
    /\ pushed = AppState.pdfData
    /\ \E i \in DOMAIN last.out :
            /\ last.out[i].type = "PDF_DATA" /\ last.out[i].posted
            /\ last.out[i].payload.data = AppState.pdfData

Inside(r, W, H) ==
    r.x >= 0 /\ r.y >= 0 /\ r.w > 0 /\ r.h > 0 /\ r.x + r.w <= W /\ r.y + r.h <= H

Overlap(r, q) ==
    r.x < q.x + q.w /\ q.x < r.x + r.w /\ r.y < q.y + q.h /\ q.y < r.y + r.h

\* C14: for a location in {right, left, top, bottom} the audience and notes
\* rectangles are disjoint, inside the raster and cover it; left/right split
\* the width at full height, top/bottom split the height at full width; the
\* audience region starts at the origin for right/bottom, the notes region
\* for left/top.
C14_RegionsPartitionRaster ==
    (regions # << >> /\ regions.location \in Locations) =>
        LET a == regions.result.audience
            n == regions.result.notes
            W == regions.width * 100
            H == regions.height * 100
        IN  /\ ~regions.result.threw
            /\ Inside(a, W, H) /\ Inside(n, W, H)
            /\ ~Overlap(a, n)
            /\ a.w * a.h + n.w * n.h = W * H
            /\ regions.location \in {"left", "right"}
                    => a.w + n.w = W /\ a.h = H /\ n.h = H
            /\ regions.location \in {"top", "bottom"}
                    => a.h + n.h = H /\ a.w = W /\ n.w = W
            /\ regions.location \in {"right", "bottom"} => (a.x = 0 /\ a.y = 0)
            /\ regions.location \in {"left", "top"} => (n.x = 0 /\ n.y = 0)

C14_Witness ==
    /\ regions # << >>
    /\ regions.location = "left" /\ regions.split = 25 /\ regions.width = MaxDim
    /\ regions.result.audience.x = regions.result.notes.w
    /\ regions.result.audience.w = 3 * regions.result.notes.w

\* C15: getRegions with a location outside {right, left, top, bottom} raises
\* an error.
C15_UnknownLocationFailsFast ==
    (regions # << >> /\ regions.location \notin Locations) => regions.result.threw

\* C16: while a document is loaded, currentPage is an integer with
\* 1 <= currentPage <= totalPages.
C16_CurrentPageInRange ==
    AppState.pdfDoc # NULL => AppState.currentPage \in 1..AppState.totalPages

C16_Witness ==
    /\ AppState.pdfDoc = 2 /\ AppState.pdfUrl = 2
    /\ AppState.currentPage = AppState.totalPages
    /\ last.op = "navigateTo" /\ last.arg = AppState.totalPages + 1

\* C17: navigateTo(page) with a valid page equal to currentPage leaves
\* currentPage as it is and posts no NAVIGATE to the audience.
C17_SamePageNavigationSendsNothing ==
    [][ (last'.op = "navigateTo" /\ last'.arg = AppState.currentPage
            /\ AppState.pdfDoc # NULL /\ last'.arg \in 1..AppState.totalPages)
        => /\ AppState'.currentPage = AppState.currentPage
           /\ \A i \in DOMAIN last'.out :
                ~(last'.out[i].type = "NAVIGATE" /\ last'.out[i].posted) ]_vars

\* C18: right after Home pdfDoc, pdfData and pdfUrl are null, totalPages is 0,
\* currentPage is 1 and the page cache is empty; right after a successful
\* load the page cache is empty and currentPage is 1.
C18_ResetClearsDerivedState ==
    [][ /\ last'.op = "home" =>
            /\ AppState'.pdfDoc = NULL /\ AppState'.pdfData = NULL
            /\ AppState'.pdfUrl = NULL
            /\ AppState'.totalPages = 0 /\ AppState'.currentPage = 1
            /\ AppState'.pageCache = << >>
        /\ last'.op = "loaded" =>
            /\ AppState'.pageCache = << >> /\ AppState'.currentPage = 1
            /\ AppState'.pdfDoc # NULL ]_vars

C18_Witness ==
    /\ last.op = "home"
    /\ screen = "start" /\ intervals.clock = 1
    /\ AppState.pageCache = << >> /\ AppState.pdfData = NULL
    /\ \E i \in DOMAIN tasks : tasks[i].kind = "nav"

\* C19: after Home no periodic timer is scheduled: not the connection poll,
\* not the clock, not the presentation timer; and none is ever scheduled twice.
C19_ResetCancelsTimers ==
    /\ last.op = "home" =>
            (intervals.poll = 0 /\ intervals.clock = 0 /\ intervals.timer = 0)
    /\ intervals.poll <= 1 /\ intervals.clock <= 1 /\ intervals.timer <= 1

\* C20: once a load has completed with the audience connected and nothing is
\* left in flight, the audience has been sent the presenter's document bytes.
C20_LoadPushesToAudience ==
    ( /\ AppState.pdfDoc # NULL /\ tasks = << >>
      /\ IsAudienceConnected(AppState, audience) /\ helloSinceOpen
      /\ ~audience.starting /\ inbox = << >> )
        => pushed = AppState.pdfData

\* C21: renderFullPage called with no document loaded throws the
\* document-not-loaded error; a failure of the engine ends the invocation it
\* was awaited in, no later stage of it running; neither adds an entry to the
\* page cache nor evicts one.
C21_RenderFullPageFailures ==
    [][ /\ (last'.op \in {"DocumentNotLoaded", "cached", "engine"}
                /\ AppState.pdfDoc = NULL)
            => /\ last'.op = "DocumentNotLoaded"
               /\ AppState' = AppState /\ tasks' = tasks
        /\ last'.op = "DocumentNotLoaded" => AppState.pdfDoc = NULL
        /\ last'.op = "renderFail"
            => /\ AppState'.pageCache = AppState.pageCache
               /\ last'.evicted = << >> /\ insertLog' = insertLog
               /\ Len(tasks') = Len(tasks) - 1
               /\ shownPage' = shownPage ]_vars

C21_Witness ==
    /\ last.op = "DocumentNotLoaded"
    /\ screen = "start" /\ intervals.clock = 1
    /\ \E i \in DOMAIN tasks : tasks[i].kind = "call"

\* C22: a failed render during a navigation or the first render of a document
\* ends renderCurrentPage without an exception: navigateTo still sends its
\* NAVIGATE, currentPage stays in range, and a navigation request made
\* afterwards is accepted and processed like any other.
C22_RenderFailureIsContained ==
    [][ /\ last'.op = "renderFail" =>
                \E i \in DOMAIN tasks :
                    /\ tasks' = RemoveAt(tasks, i)
                    /\ AppState' = AppState
                    /\ AppState'.currentPage \in 1..AppState'.totalPages
                    /\ last'.out = IF tasks[i].kind = "nav"
                                   THEN SendNavigateToAudience(AppState, audience,
                                                               tasks[i].page)
                                   ELSE << >>
        /\ (last'.op = "navigateTo" /\ ~OutOfRange(last'.arg, AppState)) =>
            /\ AppState'.currentPage = last'.arg
            /\ Len(last'.out) >= 1
            /\ last'.out[1].type = "POINTER" /\ ~last'.out[1].payload.active
            /\ \/ Len(tasks') = Len(tasks) + 1
               \/ \E k \in DOMAIN last'.out :
                    /\ last'.out[k].type = "NAVIGATE"
                    /\ last'.out[k].payload.page = last'.arg ]_vars

C22_Witness ==
    /\ last.op = "renderFail"
    /\ \E k \in DOMAIN last.out :
        /\ last.out[k].type = "NAVIGATE" /\ last.out[k].posted
        /\ last.out[k].payload.page = AppState.currentPage
    /\ shownPage # AppState.currentPage

\* C23: the presenter's handler leaves the state alone and sends nothing for
\* a message without a type or of a type other than HELLO and ERROR; the
\* audience's handler invokes no callback for a type other than STATE,
\* NAVIGATE, MODE and PDF_DATA.
C23_UnrecognizedMessagesIgnored ==
    [][ /\ (last'.op \in {"hello", "error", "message"} /\ inbox # << >>
                /\ Head(inbox).type \notin {"HELLO", "ERROR"})
            => /\ AppState' = AppState
               /\ last'.out = << >>
               /\ pushed' = pushed /\ helloSinceOpen' = helloSinceOpen
               /\ tasks' = tasks
        /\ (last'.op = "presenterMessage"
                /\ audience'.received.type \notin {"STATE", "NAVIGATE", "MODE", "PDF_DATA"})
            => audience'.calls = << >> ]_vars

C23_Witness ==
    /\ last.op = "message"
    /\ AppState.pdfData # NULL /\ WindowLive(AppState, audience)
    /\ ~AppState.isAudienceConnected
    /\ audience.received # << >>
    /\ audience.received.type = "POINTER"
    /\ audience.calls = << >>

\* C24: neither handler looks at the session id: a message handled with any
\* other session id, or none, leaves the same state and causes the same sends
\* (presenter) and the same callbacks (audience) as the one handled.
C24_SessionIdIsAdvisory ==
    [][ /\ (last'.op \in {"hello", "error", "message"} /\ inbox # << >>)
            => \A sid \in SessionIds :
                LET res == OnAudienceMessage(AppState, audience,
                                             [Head(inbox) EXCEPT !.sessionId = sid])
                IN  res.st = AppState' /\ res.out = last'.out
        /\ last'.op = "presenterMessage"
            => \A sid \in SessionIds :
                LET res == HandlePresenterMessage(audience,
                                [audience'.received EXCEPT !.sessionId = sid])
                IN  /\ res.calls = audience'.calls
                    /\ res.sessionId = audience'.sessionId ]_vars

C24_Witness ==
    /\ last.op = "presenterMessage"
    /\ audience.received.sessionId = AudienceSession
    /\ audience.calls # << >>
    /\ AppState.isAudienceConnected
    /\ lastNavigate = 0 /\ pushed # NULL

\* C25: startTimer from stopped sets elapsed to 0, from paused keeps the
\* captured elapsed, while running changes nothing; so the elapsed value of a
\* paused timer, and the value getElapsedTime returns for a running one, is
\* the total time the timer has run since it last left the stopped state.
C25_ElapsedIsSumOfRunningIntervals ==
    [][ /\ (last'.op = "startTimer"
                \/ (last'.op = "toggleTimer" /\ AppState.timerState # "running"))
            => CASE AppState.timerState = "stopped" ->
                        /\ AppState'.timerElapsed = 0
                        /\ AppState'.timerState = "running"
                        /\ AppState'.timerStartTime = now
                 [] AppState.timerState = "paused" ->
                        /\ AppState'.timerElapsed = AppState.timerElapsed
                        /\ AppState'.timerState = "running"
                        /\ AppState'.timerStartTime = now
                 [] OTHER -> AppState' = AppState /\ intervals' = intervals
        /\ AppState'.timerState = "paused" => AppState'.timerElapsed = ranFor'
        /\ AppState'.timerState = "running" => GetElapsedTime(AppState', now') = ranFor'
      ]_vars

C25_Witness ==
    /\ AppState.timerState = "paused"
    /\ last.op = "pauseTimer"
    /\ now > AppState.timerStartTime
    /\ AppState.timerElapsed > now - AppState.timerStartTime
    /\ AppState.timerElapsed = ranFor

\* C26: resetTimer leaves the timer stopped with elapsed 0, no start
\* timestamp and no tick scheduled, whatever its state was; and the tick
\* interval is scheduled exactly while the timer state is running.
C26_TickScheduledIffRunning ==
    [][ /\ last'.op = "resetTimer"
            => /\ AppState'.timerState = "stopped"
               /\ AppState'.timerElapsed = 0
               /\ AppState'.timerStartTime = NULL
               /\ intervals'.timer = 0
        /\ (intervals'.timer = 1) <=> (AppState'.timerState = "running") ]_vars

C26_Witness ==
    /\ last.op = "resetTimer"
    /\ AppState.timerState = "stopped" /\ intervals.timer = 0
    /\ ranFor = 0
    /\ now > POINTER_THROTTLE_MS

\* C27: a valid navigateTo(page) sets currentPage, then sends one POINTER
\* with active false, then renders, and only when renderCurrentPage has
\* returned sends one NAVIGATE carrying the requested page; the steps of the
\* render in between send nothing.
C27_NavigateToOrder ==
    [][ /\ (last'.op = "navigateTo" /\ ~OutOfRange(last'.arg, AppState))
            => /\ AppState'.currentPage = last'.arg
               /\ Len(last'.out) >= 1
               /\ last'.out[1].type = "POINTER"
               /\ last'.out[1].payload.active = FALSE
               /\ IF Len(tasks') > Len(tasks)
                  THEN /\ Len(last'.out) = 1
                       /\ tasks'[Len(tasks')].kind = "nav"
                       /\ tasks'[Len(tasks')].page = last'.arg
                  ELSE /\ Len(last'.out) = 2
                       /\ last'.out[2].type = "NAVIGATE"
                       /\ last'.out[2].payload.page = last'.arg
                       /\ shownPage' = last'.arg
        /\ last'.op \in {"render", "renderFail"}
            => \E i \in DOMAIN tasks :
                IF Len(tasks') = Len(tasks)
                THEN /\ last'.out = << >>
                     /\ tasks'[i].kind = tasks[i].kind /\ tasks'[i].page = tasks[i].page
                     /\ tasks'[i].stage > tasks[i].stage
                ELSE /\ tasks' = RemoveAt(tasks, i)
                     /\ IF tasks[i].kind = "nav"
                        THEN /\ Len(last'.out) = 1
                             /\ last'.out[1].type = "NAVIGATE"
                             /\ last'.out[1].payload.page = tasks[i].page
                        ELSE last'.out = << >> ]_vars

C27_Witness ==
    /\ last.op = "render"
    /\ Len(last.out) = 1 /\ last.out[1].type = "NAVIGATE" /\ last.out[1].posted
    /\ last.out[1].payload.page = AppState.currentPage
    /\ AppState.currentPage = AppState.totalPages
    /\ lastPointer = "off" /\ shownPage = AppState.currentPage
    /\ tasks = << >>

\* C28: a pointer-move update with active true is sent only when at least
\* 33 ms have passed since the last POINTER message sent, of any kind; and
\* a POINTER with active true is never sent less than 33 ms after another
\* one with active true that was the last POINTER sent before it.
C28_MoveUpdatesThrottledAgainstAnyPointer ==
    [][ \A i \in DOMAIN last'.out :
            (/\ last'.out[i].type = "POINTER"
             /\ last'.out[i].payload.active
             /\ pointerSent.at # NULL
             /\ last'.op = "mousemove" \/ pointerSent.active)
            => now - pointerSent.at >= POINTER_THROTTLE_MS ]_vars

\* C29: whenever the presenter holds document bytes, the decoded document and
\* the page count it holds are those of the same bytes, so that the STATE and
\* the PDF_DATA of a handshake describe one document.
C29_BytesAndDocumentAgree ==
    AppState.pdfData # NULL
        => /\ AppState.pdfDoc = AppState.pdfData
           /\ AppState.totalPages = NumPages(AppState.pdfData)

\* C30: every raster in the page cache was rendered from the document that
\* is loaded now: a render suspended in the engine when the cache was cleared
\* does not put its raster into the cache afterwards.
C30_CacheHoldsCurrentDocumentOnly ==
    \A i \in DOMAIN AppState.pageCache :
        AppState.pageCache[i].doc = AppState.pdfDoc

\* C31: a NAVIGATE is sent only while a document is loaded, and the page it
\* carries is a page of that document: a navigation suspended in its render
\* when Home resets the session sends no NAVIGATE afterwards.
C31_NavigateOnlyForLoadedDocument ==
    [][ \A i \in DOMAIN last'.out :
            last'.out[i].type = "NAVIGATE"
            => /\ AppState'.pdfDoc # NULL
               /\ last'.out[i].payload.page \in 1..AppState'.totalPages ]_vars

====
